---- MODULE Spec2Model ----
(***************************************************************************)
(* The event-loop closure of src/main.rs (run, lines 112-158) as a state   *)
(* machine: the host (winit) delivers occurrences to the closure, which    *)
(* drives the scene controller, the surface, the renderer and the puppet.  *)
(*                                                                         *)
(* Numbers: screen and world coordinates are integers; a scale s is held   *)
(* as the integer s * ScaleUnit, and divisions round down (the model's     *)
(* stand-in for f32 rounding).  Wall-clock time is an integer tick count.  *)
(***************************************************************************)
EXTENDS Integers, Sequences, FiniteSets, TLC

VARIABLES
    control_flow,   \* *control_flow of the closure: "Poll" (Running) or "Exit"
    phase,          \* where the host is in its loop iteration
    redraw_pending, \* window.request_redraw() was called and not yet delivered
    panicked,       \* the closure panicked (an unwrap or a collaborator panic)
    config,         \* the wgpu::SurfaceConfiguration captured by the closure
    surface,        \* the size the surface collaborator was last configured with
    renderer,       \* the renderer collaborator: its viewport and its camera
    scene_ctrl,     \* the ExampleSceneController
    now,            \* the wall clock, in ticks
    calls,          \* the collaborator calls of the last handled occurrence, in order
    occ,            \* the last handled occurrence and the state it was delivered in
    counts,         \* update calls not yet matched by a present; scrolls and drags so far
    drag,           \* what the user did in the current drag (independent of scene_ctrl)
    window          \* the window's inner size, and whether a redraw was pending
                    \* when the last Resized was delivered

vars == <<control_flow, phase, redraw_pending, panicked, config, surface,
          renderer, scene_ctrl, now, calls, occ, counts, drag, window>>

----------------------------------------------------------------------------
(* Bounds of the model. *)

MaxTime == 2
MaxScrolls == 2
MaxDrags == 1

(* Program constants. *)

InitWidth == 1280
InitHeight == 720
\* 0.15 and 0.5, as rationals over ScaleUnit and ZoomDen
ScaleUnit == 100 * 100
InitScale == 1500
ZoomNum == 1
ZoomDen == 2
\* the configured scale range [0.01, 10]
min_scale == 100
max_scale == 100000

\* Option<T>: None is the empty sequence, Some(x) the sequence of x alone
None == <<>>
Some(x) == <<x>>
Unwrap(o) == o[1]

Vec(x, y) == <<x, y>>
VSub(a, b) == <<a[1] - b[1], a[2] - b[2]>>

(* The inputs the host can deliver. *)

Sizes == {<<640, 360>>, <<0, 0>>, <<0, 360>>}
Points == {<<100, 100>>, <<150, 120>>, <<130, 90>>}
Buttons == {"Left", "Right"}
Keys == {"Escape", "Space"}
ScrollDeltas == {-7, -1, 1, 11}
AcquireResults == {"Ok", "Outdated", "Lost", "OutOfMemory"}

LoopEvents ==
    {[type |-> "CloseRequested"]}
    \cup [type : {"KeyboardInput"}, state : {"Pressed", "Released"}, key : Keys]
    \cup [type : {"Resized"}, size : Sizes]

\* the primary button anywhere, another button at one place
PointerEvents ==
    [type : {"PointerDown", "PointerUp"}, pos : Points, button : {"Left"}]
    \cup [type : {"PointerDown", "PointerUp"}, pos : {<<100, 100>>}, button : Buttons]
    \cup [type : {"PointerMoved"}, pos : Points]

ScrollEvents == [type : {"Scroll"}, delta : ScrollDeltas]

\* one drag, from (100,100) to (150,120)
OneDragEvents ==
    {[type |-> "PointerDown", pos |-> <<100, 100>>, button |-> "Left"],
     [type |-> "PointerMoved", pos |-> <<150, 120>>],
     [type |-> "PointerUp", pos |-> <<150, 120>>, button |-> "Left"]}

OneScrollEvent == {[type |-> "Scroll", delta |-> 1]}

OneMoveEvent == {[type |-> "PointerMoved", pos |-> <<150, 120>>]}

KeyUpEvent == {[type |-> "KeyboardInput", state |-> "Released", key |-> "Escape"]}

----------------------------------------------------------------------------
(* Camera: position, scale, rotation (never changed from 0 by this program). *)

DivT(a, b) == IF a >= 0 THEN a \div b ELSE -((-a) \div b)

\* screen_delta_to_world: a pixel delta over the scale, at rotation 0
screen_delta_to_world(delta, scale) ==
    Vec(DivT(delta[1] * ScaleUnit, scale[1]), DivT(delta[2] * ScaleUnit, scale[2]))

\* one component times (1 + zoom_speed)^d, one factor at a time
RECURSIVE ScalePow(_, _)
ScalePow(s, d) ==
    IF d = 0 THEN s
    ELSE IF d > 0 THEN ScalePow((s * (ZoomDen + ZoomNum)) \div ZoomDen, d - 1)
    ELSE ScalePow((s * ZoomDen) \div (ZoomDen + ZoomNum), d + 1)

Clamp(s) == IF s < min_scale THEN min_scale ELSE IF s > max_scale THEN max_scale ELSE s

ZoomNoClamp(scale, d) == Vec(ScalePow(scale[1], d), ScalePow(scale[2], d))
\* Scroll: multiply componentwise, then clamp every component into the range
Zoom(scale, d) == Vec(Clamp(ScalePow(scale[1], d)), Clamp(ScalePow(scale[2], d)))

----------------------------------------------------------------------------
(* ExampleSceneController (mod scene).  interact is handed a shared        *)
(* reference to the camera (main.rs:150) and update a mutable one          *)
(* (main.rs:114): interact records the position and scale the camera is to *)
(* take in the controller, and update writes them to the camera.           *)

ExampleSceneController_new(camera, zoom_speed) ==
    [drag_anchor |-> None,
     zoom_speed |-> zoom_speed,
     clock_origin |-> None,
     elapsed |-> 0,
     target_position |-> camera.position,
     target_scale |-> camera.scale]

current_elapsed(sc) == sc.elapsed

PointerMovedAccumulating(sc, ev, camera) ==
    IF sc.drag_anchor = None THEN sc
    ELSE [sc EXCEPT !.target_position =
            VSub(sc.target_position,
                 screen_delta_to_world(VSub(ev.pos, Unwrap(sc.drag_anchor).pos),
                                       camera.scale))]
PointerMoved(sc, ev, camera) ==
    IF sc.drag_anchor = None THEN sc
    ELSE [sc EXCEPT !.target_position =
            VSub(Unwrap(sc.drag_anchor).cam,
                 screen_delta_to_world(VSub(ev.pos, Unwrap(sc.drag_anchor).pos),
                                       camera.scale))]

ScrollNoClamp(sc, ev) == [sc EXCEPT !.target_scale = ZoomNoClamp(@, ev.delta)]
Scroll(sc, ev) == [sc EXCEPT !.target_scale = Zoom(@, ev.delta)]

interact(sc, ev, camera) ==
    CASE ev.type = "PointerDown" ->
            IF ev.button = "Left" /\ sc.drag_anchor = None
            THEN [sc EXCEPT !.drag_anchor = Some([pos |-> ev.pos, cam |-> camera.position])]
            ELSE sc
      [] ev.type = "PointerMoved" -> PointerMoved(sc, ev, camera)
      [] ev.type = "PointerUp" ->
            IF ev.button = "Left" THEN [sc EXCEPT !.drag_anchor = None] ELSE sc
      [] ev.type = "Scroll" -> Scroll(sc, ev)
      [] OTHER -> sc

\* update as it would be if it kept the time since the previous call
updateFrameDelta(sc, camera, t) ==
    LET origin == IF sc.clock_origin = None THEN t ELSE Unwrap(sc.clock_origin) IN
    [sc |-> [sc EXCEPT !.clock_origin = Some(origin), !.elapsed = (t - origin) - sc.elapsed],
     camera |-> [camera EXCEPT !.position = sc.target_position,
                               !.scale = sc.target_scale]]
\* update: the first call establishes the clock origin; every call brings
\* elapsed up to the wall clock and writes the recorded transform to the camera
update(sc, camera, t) ==
    LET origin == IF sc.clock_origin = None THEN t ELSE Unwrap(sc.clock_origin) IN
    [sc |-> [sc EXCEPT !.clock_origin = Some(origin), !.elapsed = t - origin],
     camera |-> [camera EXCEPT !.position = sc.target_position,
                               !.scale = sc.target_scale]]

----------------------------------------------------------------------------
(* The closure given to event_loop.run, one operator per match arm.  Each  *)
(* arm sets the closure's captured state and calls, the calls it makes.    *)

Call1(op) == <<op>>
Call2(op, arg) == <<op, arg>>
Call3(op, arg, res) == <<op, arg, res>>

\* the pipeline with present and render in the other order
on_RedrawRequested_PresentFirst(acq) ==
    /\ LET u == update(scene_ctrl, renderer.camera, now) IN
        /\ scene_ctrl' = u.sc
        /\ renderer' = [renderer EXCEPT !.camera = u.camera]
    /\ calls' = <<Call1("update"), Call1("begin_set_params"), Call1("current_elapsed"),
                  Call1("end_set_params"), Call3("get_current_texture", surface, acq)>>
                \o (IF acq = "Ok"
                    THEN <<Call1("create_view"), Call1("present"),
                           Call2("render", renderer.viewport)>>
                    ELSE <<>>)
    /\ panicked' = (acq # "Ok")
    /\ UNCHANGED <<control_flow, config, surface>>

\* the pipeline with a second update in place of current_elapsed
on_RedrawRequested_UpdateTwice(acq) ==
    /\ LET u1 == update(scene_ctrl, renderer.camera, now)
           u == update(u1.sc, u1.camera, now) IN
        /\ scene_ctrl' = u.sc
        /\ renderer' = [renderer EXCEPT !.camera = u.camera]
    /\ calls' = <<Call1("update"), Call1("begin_set_params"), Call1("update"),
                  Call1("end_set_params"), Call3("get_current_texture", surface, acq)>>
                \o (IF acq = "Ok"
                    THEN <<Call1("create_view"), Call2("render", renderer.viewport),
                           Call1("present")>>
                    ELSE <<>>)
    /\ panicked' = (acq # "Ok")
    /\ UNCHANGED <<control_flow, config, surface>>

\* the pipeline with the parameter scope closed after the render
on_RedrawRequested_EndAfterRender(acq) ==
    /\ LET u == update(scene_ctrl, renderer.camera, now) IN
        /\ scene_ctrl' = u.sc
        /\ renderer' = [renderer EXCEPT !.camera = u.camera]
    /\ calls' = <<Call1("update"), Call1("begin_set_params"), Call1("current_elapsed"),
                  Call3("get_current_texture", surface, acq)>>
                \o (IF acq = "Ok"
                    THEN <<Call1("create_view"), Call2("render", renderer.viewport),
                           Call1("end_set_params"), Call1("present")>>
                    ELSE <<>>)
    /\ panicked' = (acq # "Ok")
    /\ UNCHANGED <<control_flow, config, surface>>

\* the pipeline with the surface brought to the window's size before acquiring
on_RedrawRequested_ConfigureInside(acq) ==
    /\ LET u == update(scene_ctrl, renderer.camera, now) IN
        /\ scene_ctrl' = u.sc
        /\ renderer' = [renderer EXCEPT !.camera = u.camera]
    /\ surface' = <<config.width, config.height>>
    /\ calls' = <<Call1("update"), Call1("begin_set_params"), Call1("current_elapsed"),
                  Call1("end_set_params"), Call2("configure", surface'),
                  Call3("get_current_texture", surface', acq)>>
                \o (IF acq = "Ok"
                    THEN <<Call1("create_view"), Call2("render", renderer.viewport),
                           Call1("present")>>
                    ELSE <<>>)
    /\ panicked' = (acq # "Ok")
    /\ UNCHANGED <<control_flow, config>>

\* Event::RedrawRequested: the frame pipeline; acq is what
\* surface.get_current_texture() returns, and unwrap panics unless it is Ok
on_RedrawRequested(acq) ==
    /\ LET u == update(scene_ctrl, renderer.camera, now) IN
        /\ scene_ctrl' = u.sc
        /\ renderer' = [renderer EXCEPT !.camera = u.camera]
    /\ calls' = <<Call1("update"), Call1("begin_set_params"), Call1("current_elapsed"),
                  Call1("end_set_params"), Call3("get_current_texture", surface, acq)>>
                \o (IF acq = "Ok"
                    THEN <<Call1("create_view"), Call2("render", renderer.viewport),
                           Call1("present")>>
                    ELSE <<>>)
    /\ panicked' = (acq # "Ok")
    /\ UNCHANGED <<control_flow, config, surface>>

\* an exit arm that also asks for a last frame
on_Exit_RequestRedraw ==
    /\ control_flow' = "Exit"
    /\ redraw_pending' = TRUE
    /\ calls' = <<Call1("request_redraw")>>
    /\ UNCHANGED <<config, surface, renderer, scene_ctrl, panicked>>

\* WindowEvent::CloseRequested | KeyboardInput { Pressed, Some(Escape) }
on_Exit ==
    /\ control_flow' = "Exit"
    /\ calls' = <<>>
    /\ UNCHANGED <<config, surface, renderer, scene_ctrl, panicked, redraw_pending>>

IsZero(size) == size[1] = 0 \/ size[2] = 0

\* Resized without renderer.resize
on_Resized_NoRendererResize(size, cfg_ok) ==
    /\ config' = [config EXCEPT !.width = size[1], !.height = size[2]]
    /\ IF cfg_ok
       THEN /\ surface' = <<config'.width, config'.height>>
            /\ redraw_pending' = TRUE
            /\ calls' = <<Call2("configure", <<config'.width, config'.height>>),
                          Call1("request_redraw")>>
            /\ panicked' = FALSE
            /\ UNCHANGED renderer
       ELSE /\ calls' = <<Call2("configure", <<config'.width, config'.height>>)>>
            /\ panicked' = TRUE
            /\ UNCHANGED <<surface, renderer, redraw_pending>>
    /\ UNCHANGED <<control_flow, scene_ctrl>>

\* Resized that rebuilds the configuration, with the alpha mode of the other branch
on_Resized_ResetAlpha(size, cfg_ok) ==
    /\ config' = [config EXCEPT !.width = size[1], !.height = size[2],
                                !.alpha_mode = "Opaque"]
    /\ IF cfg_ok
       THEN /\ surface' = <<config'.width, config'.height>>
            /\ renderer' = [renderer EXCEPT !.viewport = size]
            /\ redraw_pending' = TRUE
            /\ calls' = <<Call2("configure", <<config'.width, config'.height>>),
                          Call2("resize", size), Call1("request_redraw")>>
            /\ panicked' = FALSE
       ELSE /\ calls' = <<Call2("configure", <<config'.width, config'.height>>)>>
            /\ panicked' = TRUE
            /\ UNCHANGED <<surface, renderer, redraw_pending>>
    /\ UNCHANGED <<control_flow, scene_ctrl>>

\* Resized that configures the surface before it stores the new size
on_Resized_StaleConfig(size, cfg_ok) ==
    /\ config' = [config EXCEPT !.width = size[1], !.height = size[2]]
    /\ IF cfg_ok
       THEN /\ surface' = <<config.width, config.height>>
            /\ renderer' = [renderer EXCEPT !.viewport = size]
            /\ redraw_pending' = TRUE
            /\ calls' = <<Call2("configure", <<config.width, config.height>>),
                          Call2("resize", size), Call1("request_redraw")>>
            /\ panicked' = FALSE
       ELSE /\ calls' = <<Call2("configure", <<config.width, config.height>>)>>
            /\ panicked' = TRUE
            /\ UNCHANGED <<surface, renderer, redraw_pending>>
    /\ UNCHANGED <<control_flow, scene_ctrl>>

\* WindowEvent::Resized(size); cfg_ok is whether surface.configure returns
\* (it may panic on a zero width or height, and only then)
on_Resized(size, cfg_ok) ==
    /\ config' = [config EXCEPT !.width = size[1], !.height = size[2]]
    /\ IF cfg_ok
       THEN /\ surface' = <<config'.width, config'.height>>
            /\ renderer' = [renderer EXCEPT !.viewport = size]
            /\ redraw_pending' = TRUE
            /\ calls' = <<Call2("configure", <<config'.width, config'.height>>),
                          Call2("resize", size), Call1("request_redraw")>>
            /\ panicked' = FALSE
       ELSE /\ calls' = <<Call2("configure", <<config'.width, config'.height>>)>>
            /\ panicked' = TRUE
            /\ UNCHANGED <<surface, renderer, redraw_pending>>
    /\ UNCHANGED <<control_flow, scene_ctrl>>

\* interact handed &mut renderer.camera: the position is written as it is computed
on_OtherWindowEvent_MutCamera(ev) ==
    /\ scene_ctrl' = interact(scene_ctrl, ev, renderer.camera)
    /\ renderer' = [renderer EXCEPT !.camera.position = scene_ctrl'.target_position]
    /\ calls' = <<Call2("interact", ev)>>
    /\ UNCHANGED <<control_flow, config, surface, panicked, redraw_pending>>

\* any other window event: scene_ctrl.interact(&window, event, &renderer.camera)
on_OtherWindowEvent(ev) ==
    /\ scene_ctrl' = interact(scene_ctrl, ev, renderer.camera)
    /\ calls' = <<Call2("interact", ev)>>
    /\ UNCHANGED <<control_flow, config, surface, renderer, panicked, redraw_pending>>

\* the exit pattern without the state: ElementState::Pressed test
IsExitEvent_AnyState(ev) ==
    \/ ev.type = "CloseRequested"
    \/ (ev.type = "KeyboardInput" /\ ev.key = "Escape")

IsExitEvent(ev) ==
    \/ ev.type = "CloseRequested"
    \/ (ev.type = "KeyboardInput" /\ ev.state = "Pressed" /\ ev.key = "Escape")

\* Event::WindowEvent { ref event, .. } => match event
on_WindowEvent(ev, cfg_ok) ==
    IF IsExitEvent(ev) THEN on_Exit
    ELSE IF ev.type = "Resized" THEN on_Resized(ev.size, cfg_ok)
    ELSE on_OtherWindowEvent(ev)

\* MainEventsCleared of a demand-driven loop: no redraw is requested
on_MainEventsCleared_NoRedraw ==
    /\ calls' = <<>>
    /\ UNCHANGED <<control_flow, config, surface, renderer, scene_ctrl, panicked,
                   redraw_pending>>

\* MainEventsCleared that also sets the control flow, as polling loops often do
on_MainEventsCleared_SetPoll ==
    /\ redraw_pending' = TRUE
    /\ control_flow' = "Poll"
    /\ calls' = <<Call1("request_redraw")>>
    /\ UNCHANGED <<config, surface, renderer, scene_ctrl, panicked>>

\* Event::MainEventsCleared: window.request_redraw()
on_MainEventsCleared ==
    /\ redraw_pending' = TRUE
    /\ calls' = <<Call1("request_redraw")>>
    /\ UNCHANGED <<control_flow, config, surface, renderer, scene_ctrl, panicked>>

\* _ => {}
on_Ignored ==
    /\ calls' = <<>>
    /\ UNCHANGED <<control_flow, config, surface, renderer, scene_ctrl, panicked,
                   redraw_pending>>

----------------------------------------------------------------------------
(* The host: winit's loop.  One iteration delivers the window events, then *)
(* MainEventsCleared, then RedrawRequested if a redraw was requested, then *)
(* RedrawEventsCleared; it looks at control_flow after that, and a panic   *)
(* of the closure ends the program.                                        *)

Live == ~panicked /\ phase # "destroyed"

\* A: where the button went down; cam0: the camera position then; B: where the
\* pointer was last moved to, and scaleB the camera scale then; mid: an earlier
\* move of this drag went somewhere else than B
NoDrag == [active |-> FALSE, A |-> <<0, 0>>, cam0 |-> <<0, 0>>, B |-> None,
           scaleB |-> <<0, 0>>, mid |-> FALSE]

\* what the user is doing with the pointer, whatever the controller makes of it
UserDrag(ev) ==
    CASE ev.type = "PointerDown" /\ ev.button = "Left" /\ ~drag.active ->
            [active |-> TRUE, A |-> ev.pos, cam0 |-> renderer.camera.position,
             B |-> None, scaleB |-> <<0, 0>>, mid |-> FALSE]
      [] ev.type = "PointerMoved" /\ drag.active ->
            [drag EXCEPT !.B = Some(ev.pos),
                         !.scaleB = renderer.camera.scale,
                         !.mid = @ \/ (drag.B # None /\ drag.B # Some(ev.pos))]
      [] ev.type = "PointerUp" /\ ev.button = "Left" -> [drag EXCEPT !.active = FALSE]
      [] OTHER -> drag

NumCalls(op) == Cardinality({i \in DOMAIN calls' : calls'[i][1] = op})

Counted(ev) ==
    [counts EXCEPT
        !.lag = @ + NumCalls("update") - NumCalls("present"),
        !.scrolls = @ + (IF ev.type = "Scroll" THEN 1 ELSE 0),
        !.drags = @ + (IF ev.type = "PointerDown" /\ ev.button = "Left" /\ ~drag.active
                       THEN 1 ELSE 0)]

Occurrence(kind, ev) ==
    [kind |-> kind, ev |-> ev, running |-> control_flow = "Poll",
     pending |-> redraw_pending]

NoEvent == [type |-> "None"]

WithinBounds(ev) ==
    /\ ev.type = "Scroll" => counts.scrolls < MaxScrolls
    /\ (ev.type = "PointerDown" /\ ev.button = "Left" /\ ~drag.active)
            => counts.drags < MaxDrags

DeliverWindowEvent(events) ==
    /\ Live /\ phase = "events"
    /\ \E ev \in events, cfg_ok \in BOOLEAN :
        /\ WithinBounds(ev)
        /\ ~cfg_ok => (ev.type = "Resized" /\ IsZero(ev.size))
        /\ on_WindowEvent(ev, cfg_ok)
        /\ window' = IF ev.type = "Resized"
                      THEN [inner_size |-> ev.size, resized_while_pending |-> redraw_pending]
                      ELSE window
        /\ drag' = UserDrag(ev)
        /\ occ' = Occurrence("WindowEvent", ev)
        /\ counts' = Counted(ev)
    /\ UNCHANGED <<phase, now>>

DeliverMainEventsCleared ==
    /\ Live /\ phase = "events"
    /\ on_MainEventsCleared
    /\ phase' = "redraws"
    /\ occ' = Occurrence("MainEventsCleared", NoEvent)
    /\ UNCHANGED <<now, counts, drag, window>>

DeliverRedrawRequested ==
    /\ Live /\ phase = "redraws" /\ redraw_pending
    /\ redraw_pending' = FALSE
    /\ \E acq \in AcquireResults : on_RedrawRequested(acq)
    /\ occ' = Occurrence("RedrawRequested", NoEvent)
    /\ counts' = Counted(NoEvent)
    /\ UNCHANGED <<phase, now, drag, window>>

\* RedrawEventsCleared, and then LoopDestroyed or the next NewEvents
DeliverRedrawEventsCleared ==
    /\ Live /\ phase = "redraws" /\ ~redraw_pending
    /\ on_Ignored
    /\ phase' = IF control_flow = "Exit" THEN "destroyed" ELSE "events"
    /\ occ' = Occurrence("RedrawEventsCleared", NoEvent)
    /\ UNCHANGED <<now, counts, drag, window>>

\* wall-clock time passes
Tick ==
    /\ Live /\ now < MaxTime
    /\ now' = now + 1
    /\ UNCHANGED <<control_flow, phase, redraw_pending, panicked, config, surface,
                   renderer, scene_ctrl, calls, occ, counts, drag, window>>

AlphaModes == {"PreMultiplied", "Opaque"}

\* the state the closure is created in (run, lines 33-110)
Init ==
    /\ control_flow = "Poll"
    /\ phase = "events"
    /\ redraw_pending = FALSE
    /\ panicked = FALSE
    /\ window = [inner_size |-> <<InitWidth, InitHeight>>, resized_while_pending |-> FALSE]
    /\ \E alpha_mode \in AlphaModes :
        config = [usage |-> "RENDER_ATTACHMENT", format |-> "Bgra8Unorm",
                  width |-> window.inner_size[1], height |-> window.inner_size[2],
                  present_mode |-> "Fifo", alpha_mode |-> alpha_mode]
    /\ surface = <<config.width, config.height>>
    /\ renderer = [viewport |-> window.inner_size,
                   camera |-> [position |-> <<0, 0>>,
                               scale |-> <<InitScale, InitScale>>,
                               rotation |-> 0]]
    /\ scene_ctrl = ExampleSceneController_new(renderer.camera, <<ZoomNum, ZoomDen>>)
    /\ now = 0
    /\ calls = <<>>
    /\ occ = [kind |-> "Init", ev |-> NoEvent, running |-> TRUE, pending |-> FALSE]
    /\ counts = [lag |-> 0, scrolls |-> 0, drags |-> 0]
    /\ drag = NoDrag

\* the loop under window, keyboard and resize events, a scroll and a pointer move
Next ==
    \/ DeliverWindowEvent(LoopEvents \cup OneScrollEvent \cup OneMoveEvent)
    \/ DeliverMainEventsCleared
    \/ DeliverRedrawRequested
    \/ DeliverRedrawEventsCleared
    \/ Tick

Spec == Init /\ [][Next]_vars

\* the host delivers a requested redraw: RedrawRequested follows MainEventsCleared
\* in the same iteration of its loop
FairSpec == Spec /\ WF_vars(DeliverRedrawRequested)

SceneInit == Init /\ config.alpha_mode = "PreMultiplied"

\* the loop under pointer events, with a scroll and a key release
DragNext ==
    \/ DeliverWindowEvent(PointerEvents \cup OneScrollEvent \cup KeyUpEvent)
    \/ DeliverMainEventsCleared
    \/ DeliverRedrawRequested
    \/ DeliverRedrawEventsCleared

DragSpec == SceneInit /\ [][DragNext]_vars

\* the loop under scroll events, with one drag and a key release
ZoomNext ==
    \/ DeliverWindowEvent(ScrollEvents \cup OneDragEvents \cup KeyUpEvent)
    \/ DeliverMainEventsCleared
    \/ DeliverRedrawRequested
    \/ DeliverRedrawEventsCleared

ZoomSpec == SceneInit /\ [][ZoomNext]_vars

----------------------------------------------------------------------------
(* What the claims are stated over: the calls of the last occurrence.      *)

Ops == [i \in DOMAIN calls |-> calls[i][1]]
OpSet == {calls[i][1] : i \in DOMAIN calls}
IsPipelineOp(op) ==
    op \in {"update", "begin_set_params", "end_set_params", "get_current_texture",
            "render", "present"}
PipelineSteps == SelectSeq(Ops, IsPipelineOp)
Acquired == \E i \in DOMAIN calls : calls[i][1] = "get_current_texture" /\ calls[i][3] = "Ok"
AcquireFailed ==
    \E i \in DOMAIN calls : calls[i][1] = "get_current_texture" /\ calls[i][3] # "Ok"

FullPipeline == <<"update", "begin_set_params", "end_set_params", "get_current_texture",
                  "render", "present">>
CutPipeline == <<"update", "begin_set_params", "end_set_params", "get_current_texture">>

----------------------------------------------------------------------------
(* C1. Terminal state: an occurrence delivered once the loop is            *)
(* ExitRequested runs no step of the frame pipeline (no update,            *)
(* begin_set_params, get_current_texture, render or present).              *)
C1_TerminalState ==
    ~occ.running => \A i \in DOMAIN Ops : ~IsPipelineOp(Ops[i])

(* C10. The loop state starts at Running, and once it is ExitRequested no  *)
(* occurrence moves it back to Running.                                    *)
C10_LoopStateMonotone ==
    /\ control_flow = "Poll"
    /\ [][control_flow = "Exit" => control_flow' = "Exit"]_vars

\* an occurrence was handled after the exit request, and the loop is still exiting
C10_Witness == ~occ.running /\ control_flow = "Exit" /\ occ.kind = "MainEventsCleared"

(* C2. Resize before render: every frame is acquired from a surface        *)
(* configured at the size of the latest Resized, and rendered with the     *)
(* renderer viewport at that size; never at an earlier size, also when a   *)
(* redraw was already pending when the Resized arrived.                    *)
C2_ResizeBeforeRender ==
    \A i \in DOMAIN calls :
        /\ calls[i][1] = "get_current_texture" => calls[i][2] = window.inner_size
        /\ calls[i][1] = "render" => calls[i][2] = window.inner_size

\* a frame rendered after a Resized that arrived with a redraw pending
C2_Witness ==
    /\ occ.kind = "RedrawRequested" /\ "render" \in OpSet
    /\ window.resized_while_pending
    /\ window.inner_size = <<640, 360>>

(* C3. Degenerate resize: a Resized with zero width or height makes no     *)
(* surface.configure call with the zero-sized configuration, and the       *)
(* redraw that follows acquires no frame and submits no render.            *)
C3_DegenerateResize ==
    /\ \A i \in DOMAIN calls : calls[i][1] = "configure" => ~IsZero(calls[i][2])
    /\ (occ.kind = "RedrawRequested" /\ IsZero(window.inner_size))
            => ("get_current_texture" \notin OpSet /\ "render" \notin OpSet)

(* C4. Recoverable acquisition failure: when get_current_texture fails     *)
(* with Lost or Outdated, the handler reconfigures the surface, skips      *)
(* render and present, and the loop goes on (no panic, still Running).     *)
C4_RecoverableAcquire ==
    (\E i \in DOMAIN calls :
        calls[i][1] = "get_current_texture" /\ calls[i][3] \in {"Lost", "Outdated"})
    => /\ ~panicked
       /\ control_flow = "Poll" \/ ~occ.running
       /\ "configure" \in OpSet
       /\ "render" \notin OpSet /\ "present" \notin OpSet

(* C5. Every RedrawRequested handled in Running executes all   *)
(* six steps, once each and in order; no step runs in another handler.     *)
C5_FullPipelineAlways ==
    /\ (occ.kind = "RedrawRequested" /\ occ.running) => PipelineSteps = FullPipeline
    /\ occ.kind # "RedrawRequested" => PipelineSteps = <<>>

(* The pipeline as built: every RedrawRequested executes update,           *)
(* begin_set_params, end_set_params, get_current_texture once each and in  *)
(* this order; when the acquisition returned Ok, render and present        *)
(* follow, once each and in this order; when it returned an error the      *)
(* handler panics at the unwrap and runs neither.                          *)
PipelineAsBuilt ==
    /\ occ.kind = "RedrawRequested" =>
        \/ Acquired /\ PipelineSteps = FullPipeline /\ ~panicked
        \/ AcquireFailed /\ PipelineSteps = CutPipeline /\ panicked
    /\ occ.kind # "RedrawRequested" => PipelineSteps = <<>>

(* C6. The update calls are as many as the frames presented,   *)
(* at most one per pipeline, and none in another handler.                  *)
C6_UpdatePerPresentedFrame ==
    /\ counts.lag = 0
    /\ Len(SelectSeq(Ops, LAMBDA op : op = "update"))
            = (IF occ.kind = "RedrawRequested" THEN 1 ELSE 0)

(* update as built: once in every frame pipeline and in no other handler; *)
(* one update is left without a presented frame once an acquisition failed *)
UpdateAsBuilt ==
    /\ counts.lag = (IF panicked /\ AcquireFailed THEN 1 ELSE 0)
    /\ Len(SelectSeq(Ops, LAMBDA op : op = "update"))
            = (IF occ.kind = "RedrawRequested" THEN 1 ELSE 0)

(* C7. Clock monotonicity: current_elapsed() never decreases, and it       *)
(* changes only in a step that called update (a RedrawRequested); interact,*)
(* Resized, drains and the passing of time leave it as it is.              *)
C7_ClockMonotone ==
    [][/\ current_elapsed(scene_ctrl') >= current_elapsed(scene_ctrl)
       /\ current_elapsed(scene_ctrl') # current_elapsed(scene_ctrl)
            => /\ occ'.kind = "RedrawRequested"
               /\ \E i \in DOMAIN calls' : calls'[i][1] = "update"]_vars

\* the clock has advanced, and an interact call after that left it there
C7_Witness ==
    /\ current_elapsed(scene_ctrl) > 0 /\ now > current_elapsed(scene_ctrl)
    /\ occ.kind = "WindowEvent" /\ "interact" \in OpSet

(* C8. Drag decomposition invariance: once the pointer has been moved to B *)
(* in a drag that began at A, the position the controller holds for the    *)
(* camera, and camera.position from the next frame on, is what one move    *)
(* from A to B gives, whatever moves came between.                         *)
DirectMove(A, B, cam0, scale) == VSub(cam0, screen_delta_to_world(VSub(B, A), scale))

C8_DragDecomposition ==
    drag.B # None =>
        LET direct == DirectMove(drag.A, Unwrap(drag.B), drag.cam0, drag.scaleB) IN
        /\ scene_ctrl.target_position = direct
        /\ occ.kind = "RedrawRequested" => renderer.camera.position = direct

\* Scenario A with a detour: (100,100) to (150,120) by way of another point,
\* at scale 0.15, and the frame after it
C8_Witness ==
    /\ drag.mid /\ drag.A = <<100, 100>> /\ drag.B = Some(<<150, 120>>)
    /\ drag.cam0 = <<0, 0>> /\ drag.scaleB = <<InitScale, InitScale>>
    /\ occ.kind = "RedrawRequested"
    /\ renderer.camera.position = <<-333, -133>>

(* C9. Scale bounds: every component of camera.scale (and of the scale the *)
(* controller holds for it) is within [min_scale, max_scale] and positive. *)
InRange(scale) ==
    \A k \in 1..2 : scale[k] >= min_scale /\ scale[k] <= max_scale /\ scale[k] > 0

C9_ScaleBounds == InRange(renderer.camera.scale) /\ InRange(scene_ctrl.target_scale)

\* the camera sits at the upper bound after a scroll that would have passed it
C9_Witness ==
    /\ renderer.camera.scale = <<max_scale, max_scale>>
    /\ counts.scrolls = 1

(* C11. Continuous render loop: in Running, every MainEventsCleared        *)
(* requests a redraw, and with a host that delivers requested redraws a    *)
(* frame pipeline runs after every drain, whatever input did or did not    *)
(* arrive.                                                                 *)
C11_ContinuousRender ==
    /\ []((occ.kind = "MainEventsCleared" /\ occ.running)
            => (redraw_pending /\ "request_redraw" \in OpSet))
    /\ (occ.kind = "MainEventsCleared" /\ occ.running)
            ~> (occ.kind = "RedrawRequested" /\ "update" \in OpSet)

\* a pipeline run on the redraw a drain requested, no input having arrived at all
C11_Witness ==
    /\ occ.kind = "RedrawRequested" /\ occ.running /\ "update" \in OpSet
    /\ ~window.resized_while_pending /\ window.inner_size = <<InitWidth, InitHeight>>
    /\ counts.scrolls = 0 /\ scene_ctrl.elapsed > 0

\* the occurrences the claims single out
IsWindowEvent(type) == occ.kind = "WindowEvent" /\ occ.ev.type = type
EscapeKey(state) ==
    IsWindowEvent("KeyboardInput") /\ occ.ev.key = "Escape" /\ occ.ev.state = state
ExitTrigger == IsWindowEvent("CloseRequested") \/ EscapeKey("Pressed")
ForwardedInput == occ.kind = "WindowEvent" /\ ~ExitTrigger /\ ~IsWindowEvent("Resized")

(* C12. Input forwarding: in Running, a window event other than            *)
(* CloseRequested, Escape pressed and Resized is handed to interact        *)
(* exactly once, nothing else is called, and the loop stays Running.       *)
C12_InputForwarding ==
    (ForwardedInput /\ occ.running)
        => (calls = <<Call2("interact", occ.ev)>> /\ control_flow = "Poll")

\* the release of Escape, forwarded while Running
C12_Witness ==
    /\ EscapeKey("Released") /\ occ.running
    /\ calls = <<Call2("interact", occ.ev)>> /\ control_flow = "Poll"

ResizedAsBuilt ==
    IsWindowEvent("Resized")
        => /\ config.width = occ.ev.size[1] /\ config.height = occ.ev.size[2]
           /\ control_flow = (IF occ.running THEN "Poll" ELSE "Exit")
           /\ IF panicked
              THEN IsZero(occ.ev.size) /\ calls = <<Call2("configure", occ.ev.size)>>
              ELSE /\ calls = <<Call2("configure", occ.ev.size),
                                Call2("resize", occ.ev.size), Call1("request_redraw")>>
                   /\ redraw_pending

(* C15. Exit triggers have no other effect: CloseRequested or Escape       *)
(* pressed sets the loop to ExitRequested and nothing else (no interact,   *)
(* no redraw request, no surface or renderer call, no state of the closure *)
(* changed); the release of Escape does not request exit.                  *)
C15_ExitOnly ==
    [][/\ ExitTrigger' =>
            /\ control_flow' = "Exit"
            /\ calls' = <<>>
            /\ UNCHANGED <<config, surface, renderer, scene_ctrl, redraw_pending,
                           panicked>>
       /\ EscapeKey("Released")' => control_flow' = control_flow]_vars

\* Escape pressed while Running, with no redraw pending before or after
C15_Witness ==
    /\ EscapeKey("Pressed") /\ occ.running /\ ~occ.pending
    /\ control_flow = "Exit" /\ ~redraw_pending /\ calls = <<>>

\* the position a PointerMoved to occ.ev.pos gives under the anchor of the drag
DraggedPosition ==
    LET anchor == Unwrap(scene_ctrl.drag_anchor) IN
    DirectMove(anchor.pos, occ.ev.pos, anchor.cam, renderer.camera.scale)

(* C14 as stated. Drag applies in interact: once a PointerMoved has been   *)
(* handled while drag_anchor is set, camera.position is the anchor's       *)
(* camera position minus the world-space delta of the move.                *)
C14_DragAppliesInInteract ==
    (IsWindowEvent("PointerMoved") /\ scene_ctrl.drag_anchor # None)
        => renderer.camera.position = DraggedPosition

(* C14, amended. interact leaves the camera as it is, drag_anchor set or   *)
(* not (it is handed a shared reference); the camera changes only in a     *)
(* RedrawRequested, whose update is handed the mutable reference.          *)
C14_DragAppliesAtUpdate ==
    [][/\ "interact" \in OpSet' => renderer'.camera = renderer.camera
       /\ renderer'.camera # renderer.camera
            => (occ'.kind = "RedrawRequested" /\ "update" \in OpSet')]_vars

\* interact has returned from a PointerMoved of a drag that began at (100,100):
\* the camera is where it was, the dragged position is still to be applied
C14_Witness ==
    /\ IsWindowEvent("PointerMoved") /\ scene_ctrl.drag_anchor # None
    /\ calls = <<Call2("interact", occ.ev)>>
    /\ Unwrap(scene_ctrl.drag_anchor).pos = <<100, 100>>
    /\ DraggedPosition = <<-333, -133>>
    /\ renderer.camera.position = <<0, 0>>

(* C16. Surface configuration frame condition: the stored configuration    *)
(* changes only in the Resized handler, which changes its width and height *)
(* to the event's and nothing else; format, present_mode and alpha_mode    *)
(* are what they were at startup in every state.                           *)
C16_ConfigFrame ==
    /\ [](config.format = "Bgra8Unorm" /\ config.present_mode = "Fifo"
            /\ config.usage = "RENDER_ATTACHMENT" /\ config.alpha_mode \in AlphaModes)
    /\ [][/\ config'.alpha_mode = config.alpha_mode
          /\ config' # config =>
                /\ IsWindowEvent("Resized")'
                /\ config' = [config EXCEPT !.width = occ'.ev.size[1],
                                            !.height = occ'.ev.size[2]]]_vars

\* a frame after a resize to 640x360, the startup alpha mode still in place
C16_Witness ==
    /\ occ.kind = "RedrawRequested" /\ Acquired
    /\ config.width = 640 /\ config.height = 360 /\ config.alpha_mode = "PreMultiplied"

(* C17. Pipeline atomicity: an occurrence that calls update calls no       *)
(* interact, configure or resize and changes neither the loop state nor    *)
(* the configuration, and it ends with present; after a pipeline that did  *)
(* not reach present nothing is handled at all.                            *)
InputOps == {"interact", "configure", "resize"}
PipelineOpen == "update" \in OpSet /\ "present" \notin OpSet

C17_PipelineAtomic ==
    /\ []("update" \in OpSet
            => /\ OpSet \cap InputOps = {}
               /\ occ.kind = "RedrawRequested"
               /\ ~PipelineOpen => calls[Len(calls)] = Call1("present"))
    /\ []((OpSet \cap InputOps # {} \/ ExitTrigger)
            => \A op \in OpSet : ~IsPipelineOp(op))
    /\ [][/\ ~PipelineOpen
          /\ "update" \in OpSet' =>
                UNCHANGED <<control_flow, config, surface, scene_ctrl.drag_anchor>>]_vars

\* an input handled between two frames: the frame before it was presented
C17_Witness ==
    /\ ForwardedInput /\ occ.ev.type = "Scroll" /\ calls = <<Call2("interact", occ.ev)>>
    /\ scene_ctrl.clock_origin # None /\ counts.lag = 0 /\ ~panicked

(* C18. Size synchronisation: at every occurrence boundary the size last   *)
(* given to surface.configure is the stored configuration's width and      *)
(* height, and is the viewport last given to the renderer.                 *)
C18_SizeSync ==
    ~panicked => /\ surface = <<config.width, config.height>>
                 /\ renderer.viewport = surface

\* the three sizes agree on 640x360 after a resize, and a frame was made with them
C18_Witness ==
    /\ surface = <<640, 360>> /\ renderer.viewport = <<640, 360>> /\ config.width = 640
    /\ occ.kind = "RedrawRequested" /\ ~panicked

(* C19. Parameter-edit bracket: in every occurrence the scope is opened    *)
(* and closed exactly once, in that order, or not at all; it is closed     *)
(* before render is called and when the handler is left.                   *)
BracketAndRender ==
    SelectSeq(Ops, LAMBDA op : op \in {"begin_set_params", "end_set_params", "render"})

C19_ParamBracket ==
    /\ BracketAndRender \in {<<>>,
                             <<"begin_set_params", "end_set_params">>,
                             <<"begin_set_params", "end_set_params", "render">>}
    /\ occ.kind = "RedrawRequested" => Len(BracketAndRender) >= 2

\* a render, with the scope opened and closed before it
C19_Witness ==
    BracketAndRender = <<"begin_set_params", "end_set_params", "render">>

(* C20. Frame lifecycle: an occurrence that acquires a frame renders into  *)
(* it once and then presents it once; without an acquired frame there is   *)
(* no render and no present; no occurrence acquires twice, and none ends   *)
(* with an acquired frame not presented.                                   *)
FrameSteps ==
    SelectSeq(Ops, LAMBDA op : op \in {"get_current_texture", "create_view", "render",
                                       "present"})

C20_FrameLifecycle ==
    IF Acquired
    THEN FrameSteps = <<"get_current_texture", "create_view", "render", "present">>
    ELSE FrameSteps \in {<<>>, <<"get_current_texture">>}

\* a second frame acquired, rendered and presented, the first one long presented
C20_Witness ==
    /\ Acquired /\ FrameSteps[Len(FrameSteps)] = "present"
    /\ scene_ctrl.elapsed > 0 /\ counts.lag = 0

====
